---- MODULE Spec2Model ----
(***************************************************************************)
(* A model of the replit-todo server: the relational tables (users,       *)
(* password_resets, todos, sessions), the storage layer                    *)
(* (server/storage.ts), the authentication gate (server/auth.ts) and the   *)
(* HTTP handlers (server/routes.ts).                                       *)
(*                                                                         *)
(* Every storage call is one SQL statement and is atomic.  A handler that  *)
(* awaits several storage calls can be interleaved with other requests     *)
(* between two awaits: POST /register and POST /reset-password are         *)
(* modelled call by call (the "Reg..." and "Rst..." actions); the other    *)
(* handlers are modelled as one action each.                               *)
(*                                                                         *)
(* Time is counted in hours.                                               *)
(***************************************************************************)
EXTENDS Integers, Sequences, FiniteSets, TLC

VARIABLES
    users,      \* table users: sequence of rows, in insertion order
    resets,     \* table password_resets: sequence of rows
    todos,      \* table todos: set of rows
    nextTodoId, \* the serial of todos.id
    sessions,   \* table sessions: set of rows [sid, userId, expire]
    nextSid,    \* number of session ids generated so far
    issued,     \* history: [sid, email], the email whose login created session sid
    now,        \* the clock (hours)
    reg,        \* POST /register requests in flight
    rst,        \* POST /reset-password requests in flight
    okTokens,   \* history: tokens for which a reset has been answered 200
    patches,    \* history: the last PATCH request that updated a todo
    resp        \* the response being sent by a handler modelled as one action

vars == <<users, resets, todos, nextTodoId, sessions, nextSid, issued, now,
          reg, rst, okTokens, patches, resp>>

----------------------------------------------------------------------------
(* Bounds of the model *)

MaxTokens == 2
MaxHours == 2
MaxWeeks == 2
MaxSid == 2
MaxSessionTodos == 1
MaxGateSid == 1
MaxTodoSid == 2
MaxListTodos == 3
MaxTodos == 2

(* Program constants *)

MinPasswordLen == 6
ResetTTL == 1
SessionTTL == 168

(* Request inputs *)

WellFormedEmails == {"a@x.com", "b@x.com"}
Emails == WellFormedEmails \cup {"not-an-email"}
Passwords == {"secret1", "secret2", "12345"}

----------------------------------------------------------------------------
(* shared/schema.ts: request validation *)

IsEmail(s) == s \in WellFormedEmails

registerSchema(body) == IsEmail(body.email) /\ Len(body.password) >= MinPasswordLen

loginSchema(body) == IsEmail(body.email) /\ Len(body.password) >= 1

forgotPasswordSchema(body) == IsEmail(body.email)

\* a schema without the minimum length of the new password
resetPasswordSchemaLax(body) == body.token >= 1

resetPasswordSchema(body) == body.token >= 1 /\ Len(body.password) >= MinPasswordLen

\* ZodError.errors: one issue per field that fails, named by its path
registerIssues(body) ==
    {f \in {"email", "password"} :
        \/ f = "email" /\ ~IsEmail(body.email)
        \/ f = "password" /\ Len(body.password) < MinPasswordLen}

resetPasswordIssues(body) ==
    {f \in {"token", "password"} :
        \/ f = "token" /\ body.token < 1
        \/ f = "password" /\ Len(body.password) < MinPasswordLen}

----------------------------------------------------------------------------
(* bcryptjs: a hash verifies exactly the password it was made from *)

bcryptHash(password) == <<"bcrypt", password>>

bcryptCompare(password, hash) == hash = bcryptHash(password)

----------------------------------------------------------------------------
(* server/storage.ts: users *)

getUser(us, id) == SelectSeq(us, LAMBDA u : u.id = id)

\* a lookup that never finds the row
getUserByEmailNone(us, email) == <<>>

getUserByEmail(us, email) == SelectSeq(us, LAMBDA u : u.email = email)

\* users.email is UNIQUE: an insert of a second row with the email fails
UniqueEmailViolated(us, email) == \E i \in DOMAIN us : us[i].email = email

createUser(us, insertUser) ==
    IF UniqueEmailViolated(us, insertUser.email)
    THEN [threw |-> TRUE, users |-> us]
    ELSE [threw |-> FALSE,
          users |-> Append(us, [id |-> Len(us) + 1,
                                email |-> insertUser.email,
                                password |-> bcryptHash(insertUser.password)])]

authenticateUser(us, email, password) ==
    LET found == getUserByEmail(us, email) IN
    IF found = <<>> THEN <<>>
    ELSE IF bcryptCompare(password, found[1].password) THEN <<found[1]>> ELSE <<>>

\* an update without the WHERE clause
updateUserPasswordAll(us, email, password) ==
    [i \in DOMAIN us |-> [us[i] EXCEPT !.password = bcryptHash(password)]]

updateUserPassword(us, email, password) ==
    [i \in DOMAIN us |->
        IF us[i].email = email
        THEN [us[i] EXCEPT !.password = bcryptHash(password)]
        ELSE us[i]]

----------------------------------------------------------------------------
(* POST /api/auth/register, one storage call per step *)

\* two requests can be in flight at a time
RegIds == {1, 2}

Idle == [pc |-> "idle"]

Respond(r, status, message) == [r EXCEPT !.pc = "done", !.status = status, !.message = message]

\* the request arrives and its body is parsed
RegStart(r, body) ==
    /\ reg[r].pc = "idle"
    /\ \A q \in RegIds : q < r => reg[q].pc # "idle"
    /\ LET req == [pc |-> "lookup", body |-> body, status |-> 0, message |-> "",
                   errors |-> {},
                   existed |-> \E i \in DOMAIN users : users[i].email = body.email,
                   conflict |-> FALSE]
       IN reg' = [reg EXCEPT ![r] =
                    IF registerSchema(body) THEN req
                    ELSE [Respond(req, 400, "Invalid user data")
                             EXCEPT !.errors = registerIssues(body)]]
    /\ UNCHANGED <<users, resets, todos, nextTodoId, sessions, nextSid, issued, now,
                   rst, okTokens, resp, patches>>

\* await storage.getUserByEmail
RegLookup(r) ==
    /\ reg[r].pc = "lookup"
    /\ reg' = [reg EXCEPT ![r] =
                 IF getUserByEmail(users, reg[r].body.email) # <<>>
                 THEN Respond(@, 400, "Email already registered")
                 ELSE [@ EXCEPT !.pc = "create"]]
    /\ UNCHANGED <<users, resets, todos, nextTodoId, sessions, nextSid, issued, now,
                   rst, okTokens, resp, patches>>

\* await storage.createUser
RegCreate(r) ==
    /\ reg[r].pc = "create"
    /\ LET res == createUser(users, reg[r].body) IN
       /\ users' = res.users
       /\ reg' = [reg EXCEPT ![r] =
                    IF res.threw
                    THEN [Respond(@, 500, "Failed to create user") EXCEPT !.conflict = TRUE]
                    ELSE Respond(@, 201, "User created successfully")]
    /\ UNCHANGED <<resets, todos, nextTodoId, sessions, nextSid, issued, now,
                   rst, okTokens, resp, patches>>

\* the response has been sent; the slot is free for the next request
RegRecycle(r) ==
    /\ reg[r].pc = "done"
    /\ reg' = [reg EXCEPT ![r] = Idle]
    /\ UNCHANGED <<users, resets, todos, nextTodoId, sessions, nextSid, issued, now,
                   rst, okTokens, resp, patches>>

----------------------------------------------------------------------------
(* server/storage.ts: password resets.  A token stands for the 32 random  *)
(* bytes of crypto.randomBytes: the n-th token generated is the number n,  *)
(* so a new token never equals an earlier one; 0 stands for the empty      *)
(* string.                                                                 *)

\* a store that keeps one outstanding token per email: a new row retires
\* the earlier rows of the email
createPasswordResetSingle(rs, email, token, t) ==
    Append([i \in DOMAIN rs |->
               IF rs[i].email = email THEN [rs[i] EXCEPT !.used = TRUE] ELSE rs[i]],
           [email |-> email, token |-> token,
            expiresAt |-> t + ResetTTL, used |-> FALSE])

createPasswordReset(rs, email, token, t) ==
    Append(rs, [email |-> email, token |-> token,
                expiresAt |-> t + ResetTTL, used |-> FALSE])

\* a lookup that forgets the used flag
getPasswordResetAnyState(rs, token) ==
    SelectSeq(rs, LAMBDA x : x.token = token)

getPasswordReset(rs, token) ==
    SelectSeq(rs, LAMBDA x : x.token = token /\ x.used = FALSE)

\* an update that flips the flag of the row
markPasswordResetToggle(rs, token) ==
    [i \in DOMAIN rs |->
        IF rs[i].token = token THEN [rs[i] EXCEPT !.used = ~@] ELSE rs[i]]

markPasswordResetUsed(rs, token) ==
    [i \in DOMAIN rs |->
        IF rs[i].token = token THEN [rs[i] EXCEPT !.used = TRUE] ELSE rs[i]]

\* the comparison the wrong way round
IsExpiredReversed(t, resetRequest) == t < resetRequest.expiresAt

\* routes.ts: new Date() > resetRequest.expiresAt
IsExpired(t, resetRequest) == t > resetRequest.expiresAt

----------------------------------------------------------------------------
(* POST /api/auth/reset-password, one storage call per step *)

\* two requests can be in flight at a time
RstIds == {1, 2}

\* the request arrives and its body is parsed
RstStart(r, body) ==
    /\ rst[r].pc = "idle"
    /\ \A q \in RstIds : q < r => rst[q].pc # "idle"
    /\ LET req == [pc |-> "get", body |-> body, status |-> 0, message |-> "",
                   errors |-> {}, email |-> "",
                   afterOk |-> body.token \in okTokens,
                   late |-> \E i \in DOMAIN resets :
                                resets[i].token = body.token /\ now > resets[i].expiresAt,
                   wrotePassword |-> FALSE, wroteUsed |-> FALSE]
       IN rst' = [rst EXCEPT ![r] =
                    IF resetPasswordSchema(body) THEN req
                    ELSE [Respond(req, 400, "Invalid reset data")
                             EXCEPT !.errors = resetPasswordIssues(body)]]
    /\ UNCHANGED <<users, resets, todos, nextTodoId, sessions, nextSid, issued, now,
                   reg, okTokens, resp, patches>>

\* await storage.getPasswordReset, then the expiry check
RstGet(r) ==
    /\ rst[r].pc = "get"
    /\ LET found == getPasswordReset(resets, rst[r].body.token) IN
       rst' = [rst EXCEPT ![r] =
                 IF found = <<>>
                 THEN Respond(@, 400, "Invalid or expired reset token")
                 ELSE IF IsExpired(now, found[1])
                 THEN Respond(@, 400, "Reset token has expired")
                 ELSE [@ EXCEPT !.pc = "update", !.email = found[1].email]]
    /\ UNCHANGED <<users, resets, todos, nextTodoId, sessions, nextSid, issued, now,
                   reg, okTokens, resp, patches>>

\* a password update that also ends the sessions of the user
RstUpdateRevoking(r) ==
    /\ rst[r].pc = "update"
    /\ users' = [i \in DOMAIN users |->
                    IF users[i].email = rst[r].email
                    THEN [users[i] EXCEPT !.password = bcryptHash(rst[r].body.password)]
                    ELSE users[i]]
    /\ sessions' = {x \in sessions :
                       \A i \in DOMAIN users :
                          users[i].email = rst[r].email => x.userId # users[i].id}
    /\ rst' = [rst EXCEPT ![r] = [@ EXCEPT !.pc = "mark", !.wrotePassword = TRUE]]
    /\ UNCHANGED <<resets, todos, nextTodoId, nextSid, issued, now,
                   reg, okTokens, resp, patches>>

\* await storage.updateUserPassword
RstUpdate(r) ==
    /\ rst[r].pc = "update"
    /\ users' = updateUserPassword(users, rst[r].email, rst[r].body.password)
    /\ rst' = [rst EXCEPT ![r] = [@ EXCEPT !.pc = "mark", !.wrotePassword = TRUE]]
    /\ UNCHANGED <<resets, todos, nextTodoId, sessions, nextSid, issued, now,
                   reg, okTokens, resp, patches>>

\* await storage.markPasswordResetUsed, then the 200
RstMark(r) ==
    /\ rst[r].pc = "mark"
    /\ resets' = markPasswordResetUsed(resets, rst[r].body.token)
    /\ rst' = [rst EXCEPT ![r] =
                 [Respond(@, 200, "Password reset successfully") EXCEPT !.wroteUsed = TRUE]]
    /\ okTokens' = okTokens \cup {rst[r].body.token}
    /\ UNCHANGED <<users, todos, nextTodoId, sessions, nextSid, issued, now,
                   reg, resp, patches>>

\* storage.markPasswordResetUsed rejects (the UPDATE fails): the catch
\* block answers 500 and the row is as it was
RstMarkThrows(r) ==
    /\ rst[r].pc = "mark"
    /\ rst' = [rst EXCEPT ![r] = Respond(@, 500, "Failed to reset password")]
    /\ UNCHANGED <<users, resets, todos, nextTodoId, sessions, nextSid, issued, now,
                   reg, okTokens, resp, patches>>

\* the response has been sent; the slot is free for the next request
RstRecycle(r) ==
    /\ rst[r].pc = "done"
    /\ rst' = [rst EXCEPT ![r] = Idle]
    /\ UNCHANGED <<users, resets, todos, nextTodoId, sessions, nextSid, issued, now,
                   reg, okTokens, resp, patches>>

----------------------------------------------------------------------------
(* POST /api/auth/register handled without interleaving *)

NoResponse == [route |-> "none", status |-> 0, message |-> ""]

PublicUser(u) == [id |-> u.id, email |-> u.email]

Register(body) ==
    /\ resp = NoResponse
    /\ IF ~registerSchema(body)
       THEN /\ resp' = [route |-> "register", status |-> 400, message |-> "Invalid user data",
                        errors |-> registerIssues(body)]
            /\ users' = users
       ELSE IF getUserByEmail(users, body.email) # <<>>
       THEN /\ resp' = [route |-> "register", status |-> 400,
                        message |-> "Email already registered"]
            /\ users' = users
       ELSE LET res == createUser(users, body) IN
            /\ users' = res.users
            /\ resp' = IF res.threw
                       THEN [route |-> "register", status |-> 500,
                             message |-> "Failed to create user"]
                       ELSE [route |-> "register", status |-> 201,
                             message |-> "User created successfully",
                             user |-> PublicUser(res.users[Len(res.users)])]
    /\ UNCHANGED <<resets, todos, nextTodoId, sessions, nextSid, issued, now,
                   reg, rst, okTokens, patches>>

----------------------------------------------------------------------------
(* server/email.ts.  mail is what the mail service does with the message:  *)
(* "no_api_key" (SENDGRID_API_KEY is not set), "sent" or "send_failed".    *)

MailOutcomes == {"no_api_key", "sent", "send_failed"}

sendEmail(mail) ==
    IF mail = "no_api_key" THEN FALSE
    ELSE IF mail = "sent" THEN TRUE
    ELSE FALSE

sendPasswordResetEmail(mail) == sendEmail(mail)

(* POST /api/auth/forgot-password *)

GenericMessage == "If an account with this email exists, a password reset link has been sent."

UnavailableMessage ==
    "Email service is currently unavailable. For demo purposes, use the reset token provided."

NodeEnvs == {"development", "production", "test"}

\* a handler that gives up when the mail cannot be delivered: the token row
\* is not kept and the answer is the 500 of the catch block
ForgotPasswordAborts(body, mail, nodeEnv) ==
    /\ resp = NoResponse
    /\ IF ~forgotPasswordSchema(body)
       THEN /\ resp' = [route |-> "forgot", email |-> body.email, status |-> 400,
                        message |-> "Invalid email"]
            /\ resets' = resets
       ELSE IF getUserByEmail(users, body.email) = <<>>
       THEN /\ resp' = [route |-> "forgot", email |-> body.email, status |-> 200,
                        message |-> GenericMessage]
            /\ resets' = resets
       ELSE IF sendPasswordResetEmail(mail)
       THEN /\ Len(resets) < MaxTokens
            /\ resets' = createPasswordReset(resets, body.email, Len(resets) + 1, now)
            /\ resp' = [route |-> "forgot", email |-> body.email, status |-> 200,
                        message |-> GenericMessage]
       ELSE /\ resp' = [route |-> "forgot", email |-> body.email, status |-> 500,
                        message |-> "Failed to process password reset request"]
            /\ resets' = resets
    /\ UNCHANGED <<users, todos, nextTodoId, sessions, nextSid, issued, now,
                   reg, rst, okTokens, patches>>

\* a handler that writes the token row before it looks the user up
ForgotPasswordEager(body, mail, nodeEnv) ==
    /\ resp = NoResponse
    /\ forgotPasswordSchema(body)
    /\ Len(resets) < MaxTokens
    /\ resets' = createPasswordReset(resets, body.email, Len(resets) + 1, now)
    /\ resp' = [route |-> "forgot", email |-> body.email, status |-> 200,
                message |-> GenericMessage, delivery |-> <<>>, log |-> <<>>]
    /\ UNCHANGED <<users, todos, nextTodoId, sessions, nextSid, issued, now,
                   reg, rst, okTokens, patches>>

\* a response that carries the token in every mode
discloseAlways(nodeEnv, resetToken) == <<resetToken>>

\* process.env.NODE_ENV === 'development' ? resetToken : undefined
disclose(nodeEnv, resetToken) ==
    IF nodeEnv = "development" THEN <<resetToken>> ELSE <<>>

\* Beside what the client receives (status, message, resetToken) the answer
\* records the request's email, in delivery the outcome of the mail that
\* was attempted (<<>> when none was), in log the token that console.log
\* wrote (<<>> when none was) and the mode the server runs in.
ForgotPassword(body, mail, nodeEnv) ==
    /\ resp = NoResponse
    /\ IF ~forgotPasswordSchema(body)
       THEN /\ resp' = [route |-> "forgot", email |-> body.email, status |-> 400,
                        message |-> "Invalid email", delivery |-> <<>>, log |-> <<>>]
            /\ resets' = resets
       ELSE IF getUserByEmail(users, body.email) = <<>>
       THEN /\ resp' = [route |-> "forgot", email |-> body.email, status |-> 200,
                        message |-> GenericMessage, delivery |-> <<>>, log |-> <<>>]
            /\ resets' = resets
       ELSE LET resetToken == Len(resets) + 1 IN
            /\ Len(resets) < MaxTokens
            /\ resets' = createPasswordReset(resets, body.email, resetToken, now)
            /\ resp' = IF sendPasswordResetEmail(mail)
                       THEN [route |-> "forgot", email |-> body.email, status |-> 200,
                             message |-> GenericMessage,
                             delivery |-> <<mail>>, log |-> <<>>]
                       ELSE [route |-> "forgot", email |-> body.email, status |-> 200,
                             message |-> UnavailableMessage,
                             resetToken |-> disclose(nodeEnv, resetToken),
                             delivery |-> <<mail>>, log |-> <<resetToken>>,
                             nodeEnv |-> nodeEnv]
    /\ UNCHANGED <<users, todos, nextTodoId, sessions, nextSid, issued, now,
                   reg, rst, okTokens, patches>>

----------------------------------------------------------------------------
(* server/auth.ts: sessions.  A cookie is the session id it carries, 0 for *)
(* a request without a cookie.  The session store returns a row only until *)
(* its expiry (ttl and cookie maxAge: 7 days).                             *)

\* a store that returns a row whatever its expiry
sessionGetAny(ss, sid, t) == {x \in ss : x.sid = sid}

sessionGet(ss, sid, t) == {x \in ss : x.sid = sid /\ x.expire >= t}

\* a logout that leaves the session row in the store
sessionDestroyNothing(ss, sid) == ss

sessionDestroy(ss, sid) == {x \in ss : x.sid # sid}

\* a session that keeps a constant instead of the user's id
serializeUserFirst(user) == 1

serializeUser(user) == user.id

\* a lookup that makes up a user for an id that has no row
deserializeUserStub(us, id) == <<[id |-> id, email |-> "", password |-> <<>>]>>

deserializeUser(us, id) == getUser(us, id)

\* req.user: passport.session() loads the session and deserializes its user
reqUser(c) ==
    LET found == sessionGet(sessions, c, now) IN
    IF found = {} THEN <<>>
    ELSE deserializeUser(users, (CHOOSE x \in found : TRUE).userId)

isAuthenticated(c) == reqUser(c) # <<>>

\* a gate that only looks for a cookie
requireAuthCookieOnly(c) == c # 0

requireAuth(c) == isAuthenticated(c)

getCurrentUser(c) == reqUser(c)

Unauthorized(route, c) ==
    [route |-> route, cookie |-> c, actor |-> <<>>, status |-> 401,
     message |-> "Authentication required"]

NotAuthenticated(route, c) ==
    [route |-> route, cookie |-> c, actor |-> <<>>, status |-> 401,
     message |-> "Not authenticated"]

Answer(route, c, user, status, message) ==
    [route |-> route, cookie |-> c, actor |-> <<user.id>>, status |-> status,
     message |-> message]

----------------------------------------------------------------------------
(* POST /api/auth/login, POST /api/auth/logout, GET /api/auth/me *)

\* a verify callback that tells an unknown email from a wrong password
verifyLeaky(email, password) ==
    LET user == authenticateUser(users, email, password) IN
    IF user # <<>> THEN [user |-> user, info |-> ""]
    ELSE IF getUserByEmail(users, email) = <<>>
    THEN [user |-> <<>>, info |-> "No account with this email"]
    ELSE [user |-> <<>>, info |-> "Invalid email or password"]

\* the LocalStrategy verify callback: done(null, user) or done(null, false, info)
verify(email, password) ==
    LET user == authenticateUser(users, email, password) IN
    IF user # <<>> THEN [user |-> user, info |-> ""]
    ELSE [user |-> <<>>, info |-> "Invalid email or password"]

\* the status and message of the answer to a login
LoginAnswer(body) ==
    IF ~loginSchema(body) THEN [status |-> 400, message |-> "Invalid login data"]
    ELSE LET v == verify(body.email, body.password) IN
         IF v.user = <<>>
         THEN [status |-> 401,
               message |-> IF v.info # "" THEN v.info ELSE "Invalid credentials"]
         ELSE [status |-> 200, message |-> "Login successful"]

\* req.logIn leaves the session the request came with and starts a new one
Login(c, body, maxSid) ==
    LET a == LoginAnswer(body) IN
    /\ resp = NoResponse
    /\ IF a.status # 200
       THEN /\ resp' = [route |-> "login", req |-> body, status |-> a.status,
                        message |-> a.message]
            /\ UNCHANGED <<sessions, nextSid, issued>>
       ELSE LET user == verify(body.email, body.password).user[1]
                sid == nextSid + 1
            IN /\ nextSid < maxSid
               /\ nextSid' = sid
               /\ sessions' = sessionDestroy(sessions, c) \cup
                                {[sid |-> sid, userId |-> serializeUser(user),
                                  expire |-> now + SessionTTL]}
               /\ issued' = issued \cup {[sid |-> sid, email |-> body.email]}
               /\ resp' = [route |-> "login", req |-> body, status |-> a.status,
                           message |-> a.message,
                           user |-> PublicUser(user), setCookie |-> sid]
    /\ UNCHANGED <<users, resets, todos, nextTodoId, now, reg, rst, okTokens, patches>>

\* req.logout removes the user from the session and regenerates it
Logout(c) ==
    /\ resp = NoResponse
    /\ sessions' = sessionDestroy(sessions, c)
    /\ resp' = [route |-> "logout", cookie |-> c, status |-> 200,
                message |-> "Logout successful"]
    /\ UNCHANGED <<users, resets, todos, nextTodoId, nextSid, issued, now,
                   reg, rst, okTokens, patches>>

Me(c) ==
    /\ resp = NoResponse
    /\ resp' = IF ~requireAuth(c) THEN Unauthorized("me", c)
               ELSE LET user == getCurrentUser(c) IN
                    IF user = <<>> THEN NotAuthenticated("me", c)
                    ELSE [data |-> PublicUser(user[1])] @@ Answer("me", c, user[1], 200, "")
    /\ UNCHANGED <<users, resets, todos, nextTodoId, sessions, nextSid, issued, now,
                   reg, rst, okTokens, patches>>

----------------------------------------------------------------------------
(* server/storage.ts: todos.  An optional value is <<>> (absent, null) or  *)
(* <<v>>.                                                                  *)

\* a select without the owner filter
getAllTodosEveryone(ts, userId) == ts

getAllTodos(ts, userId) == {x \in ts : x.userId = userId}

getTodo(ts, id, userId) == {x \in ts : x.id = id /\ x.userId = userId}

\* completed has the column default false; created_at defaults to now()
createTodo(id, insertTodo, userId, t) ==
    [id |-> id,
     text |-> insertTodo.text[1],
     completed |-> IF insertTodo.completed = <<>> THEN FALSE ELSE insertTodo.completed[1],
     userId |-> userId,
     createdAt |-> t,
     completedAt |-> <<>>]

\* values that stamp a completed todo with a fixed time
updateDataEpoch(updates, t) ==
    [updates EXCEPT !.completedAt =
        IF updates.completed # <<>>
        THEN << IF updates.completed[1] THEN <<0>> ELSE <<>> >>
        ELSE @]

\* values that leave the completion timestamp to the request
updateDataPlain(updates, t) == updates

\* the values of UPDATE ... SET
updateData(updates, t) ==
    [updates EXCEPT !.completedAt =
        IF updates.completed # <<>>
        THEN << IF updates.completed[1] THEN <<t>> ELSE <<>> >>
        ELSE @]

\* an update that writes every column, the absent ones with their defaults
setTodoWhole(x, data) ==
    [x EXCEPT !.text = IF data.text = <<>> THEN "" ELSE data.text[1],
              !.completed = IF data.completed = <<>> THEN FALSE ELSE data.completed[1],
              !.completedAt = IF data.completedAt = <<>> THEN <<>> ELSE data.completedAt[1]]

\* UPDATE ... SET writes the columns the values name and leaves the others
setTodo(x, data) ==
    [x EXCEPT !.text = IF data.text = <<>> THEN @ ELSE data.text[1],
              !.completed = IF data.completed = <<>> THEN @ ELSE data.completed[1],
              !.completedAt = IF data.completedAt = <<>> THEN @ ELSE data.completedAt[1],
              !.userId = IF "userId" \in DOMAIN data /\ data.userId # <<>>
                         THEN data.userId[1] ELSE @]

\* an update that filters on the id alone
updateTodoAnyOwner(ts, id, updates, userId, t) ==
    LET hit == {x \in ts : x.id = id}
        new == {setTodo(x, updateData(updates, t)) : x \in hit}
    IN [todos |-> (ts \ hit) \cup new, returning |-> new]

\* the table after the update and the rows it returns
updateTodo(ts, id, updates, userId, t) ==
    LET hit == {x \in ts : x.id = id /\ x.userId = userId}
        new == {setTodo(x, updateData(updates, t)) : x \in hit}
    IN [todos |-> (ts \ hit) \cup new, returning |-> new]

\* a delete that reports the row deleted and keeps it
deleteTodoKeeps(ts, id, userId) ==
    [todos |-> ts, deleted |-> \E x \in ts : x.id = id /\ x.userId = userId]

\* the table after the delete and whether a row was deleted
deleteTodo(ts, id, userId) ==
    LET hit == {x \in ts : x.id = id /\ x.userId = userId}
    IN [todos |-> ts \ hit, deleted |-> hit # {}]

insertTodoSchema(body) == body.text # <<>>

\* a schema that passes unknown keys through
updateTodoPassthrough(body) == body

\* updateTodoSchema.parse: the keys of the schema are kept, every other key
\* of the body (userId among them) is stripped
updateTodoParse(body) ==
    [k \in DOMAIN body \cap {"text", "completed", "completedAt"} |-> body[k]]

----------------------------------------------------------------------------
(* The todo routes.  A path parameter is <<n>> when parseInt gives the     *)
(* number n and <<>> when it gives NaN.                                    *)

WithId(answer, id) == [id |-> id] @@ answer

\* the rows in the order of ORDER BY created_at: rows with the same
\* created_at come in any order
OrderedByCreatedAt(rows) ==
    LET n == Cardinality(rows) IN
    {q \in [1 .. n -> rows] :
        /\ \A i, j \in 1 .. n : i # j => q[i] # q[j]
        /\ \A i, j \in 1 .. n : i < j => q[i].createdAt <= q[j].createdAt}

GetTodos(c) ==
    /\ resp = NoResponse
    /\ IF ~requireAuth(c) THEN resp' = Unauthorized("getTodos", c)
       ELSE LET user == getCurrentUser(c) IN
            IF user = <<>> THEN resp' = NotAuthenticated("getTodos", c)
            ELSE \E list \in OrderedByCreatedAt(getAllTodos(todos, user[1].id)) :
                    resp' = [data |-> list] @@ Answer("getTodos", c, user[1], 200, "")
    /\ UNCHANGED <<users, resets, todos, nextTodoId, sessions, nextSid, issued, now,
                   reg, rst, okTokens, patches>>

GetTodo(c, id) ==
    /\ resp = NoResponse
    /\ resp' = WithId(
         IF ~requireAuth(c) THEN Unauthorized("getTodo", c)
         ELSE LET user == getCurrentUser(c) IN
              IF user = <<>> THEN NotAuthenticated("getTodo", c)
              ELSE IF id = <<>> THEN Answer("getTodo", c, user[1], 400, "Invalid todo ID")
              ELSE LET todo == getTodo(todos, id[1], user[1].id) IN
                   IF todo = {} THEN Answer("getTodo", c, user[1], 404, "Todo not found")
                   ELSE [data |-> todo] @@ Answer("getTodo", c, user[1], 200, ""),
         id)
    /\ UNCHANGED <<users, resets, todos, nextTodoId, sessions, nextSid, issued, now,
                   reg, rst, okTokens, patches>>

CreateTodo(c, body, maxTodos) ==
    /\ resp = NoResponse
    /\ IF ~requireAuth(c)
       THEN /\ resp' = Unauthorized("createTodo", c)
            /\ UNCHANGED <<todos, nextTodoId>>
       ELSE LET user == getCurrentUser(c) IN
            IF user = <<>>
            THEN /\ resp' = NotAuthenticated("createTodo", c)
                 /\ UNCHANGED <<todos, nextTodoId>>
            ELSE IF ~insertTodoSchema(body)
            THEN /\ resp' = Answer("createTodo", c, user[1], 400, "Invalid todo data")
                 /\ UNCHANGED <<todos, nextTodoId>>
            ELSE LET todo == createTodo(nextTodoId, body, user[1].id, now) IN
                 /\ nextTodoId <= maxTodos
                 /\ todos' = todos \cup {todo}
                 /\ nextTodoId' = nextTodoId + 1
                 /\ resp' = [data |-> {todo}] @@ Answer("createTodo", c, user[1], 201, "")
    /\ UNCHANGED <<users, resets, sessions, nextSid, issued, now, reg, rst, okTokens, patches>>

PatchTodo(c, id, body) ==
    /\ resp = NoResponse
    /\ IF ~requireAuth(c)
       THEN /\ resp' = WithId(Unauthorized("patchTodo", c), id)
            /\ todos' = todos
       ELSE LET user == getCurrentUser(c) IN
            IF user = <<>>
            THEN /\ resp' = WithId(NotAuthenticated("patchTodo", c), id)
                 /\ todos' = todos
            ELSE IF id = <<>>
            THEN /\ resp' = WithId(Answer("patchTodo", c, user[1], 400, "Invalid todo ID"), id)
                 /\ todos' = todos
            ELSE LET res == updateTodo(todos, id[1], updateTodoParse(body), user[1].id, now) IN
                 /\ todos' = res.todos
                 /\ resp' = WithId(
                      IF res.returning = {}
                      THEN Answer("patchTodo", c, user[1], 404, "Todo not found")
                      ELSE [data |-> res.returning] @@ Answer("patchTodo", c, user[1], 200, ""),
                      id)
    /\ UNCHANGED <<users, resets, nextTodoId, sessions, nextSid, issued, now,
                   reg, rst, okTokens>>

\* PATCH /api/todos/:id, keeping in patches the last request that updated a
\* row: its body, its time, the row before and after, and in cleared the
\* completion timestamp that the update before it took from the same todo
\* when that update set completed to false
PatchTodoTraced(c, id, body) ==
    /\ PatchTodo(c, id, body)
    /\ patches' =
          IF resp'.status # 200 THEN patches
          ELSE << [id |-> id[1], body |-> body, at |-> now,
                   before |-> CHOOSE x \in todos : x.id = id[1],
                   after |-> CHOOSE y \in todos' : y.id = id[1],
                   cleared |-> IF /\ patches # <<>>
                                  /\ patches[1].id = id[1]
                                  /\ patches[1].body.completed = <<FALSE>>
                               THEN patches[1].before.completedAt
                               ELSE <<>>] >>

DeleteTodo(c, id) ==
    /\ resp = NoResponse
    /\ IF ~requireAuth(c)
       THEN /\ resp' = WithId(Unauthorized("deleteTodo", c), id)
            /\ todos' = todos
       ELSE LET user == getCurrentUser(c) IN
            IF user = <<>>
            THEN /\ resp' = WithId(NotAuthenticated("deleteTodo", c), id)
                 /\ todos' = todos
            ELSE IF id = <<>>
            THEN /\ resp' = WithId(Answer("deleteTodo", c, user[1], 400, "Invalid todo ID"), id)
                 /\ todos' = todos
            ELSE LET res == deleteTodo(todos, id[1], user[1].id) IN
                 /\ todos' = res.todos
                 /\ resp' = WithId(
                      IF ~res.deleted
                      THEN Answer("deleteTodo", c, user[1], 404, "Todo not found")
                      ELSE Answer("deleteTodo", c, user[1], 200, "Todo deleted successfully"),
                      id)
    /\ UNCHANGED <<users, resets, nextTodoId, sessions, nextSid, issued, now,
                   reg, rst, okTokens, patches>>

\* the response has been written to the connection
Sent ==
    /\ resp # NoResponse
    /\ resp' = NoResponse
    /\ UNCHANGED <<users, resets, todos, nextTodoId, sessions, nextSid, issued, now,
                   reg, rst, okTokens, patches>>

----------------------------------------------------------------------------
(* The clock *)

Tick(hours, horizon) ==
    /\ now + hours <= horizon
    /\ now' = now + hours
    /\ UNCHANGED <<users, resets, todos, nextTodoId, sessions, nextSid, issued,
                   reg, rst, okTokens, resp, patches>>

----------------------------------------------------------------------------

Init ==
    /\ users = <<>>
    /\ resets = <<>>
    /\ todos = {}
    /\ nextTodoId = 1
    /\ sessions = {}
    /\ nextSid = 0
    /\ issued = {}
    /\ now = 0
    /\ reg = [r \in RegIds |-> Idle]
    /\ rst = [r \in RstIds |-> Idle]
    /\ okTokens = {}
    /\ patches = <<>>
    /\ resp = NoResponse

RegisterBodies == [email : Emails, password : Passwords]

NextRegister ==
    \/ \E r \in RegIds, body \in RegisterBodies : RegStart(r, body)
    \/ \E r \in RegIds : RegLookup(r)
    \/ \E r \in RegIds : RegCreate(r)
    \/ \E r \in RegIds : RegRecycle(r)

SpecRegister == Init /\ [][NextRegister]_vars

ResetBodies == [token : 0 .. MaxTokens, password : {"secret2", "12345"}]

Accounts == [email : WellFormedEmails, password : {"secret1"}]

\* reset confirmations racing each other, within the hour of the token
NextResetRace ==
    \/ \E body \in Accounts : Register(body)
    \/ \E body \in [email : WellFormedEmails] : ForgotPassword(body, "sent", "production")
    \/ \E r \in RstIds, body \in ResetBodies : RstStart(r, body)
    \/ \E r \in RstIds : RstGet(r)
    \/ \E r \in RstIds : RstUpdate(r)
    \/ \E r \in RstIds : RstMark(r)
    \/ \E r \in RstIds : RstRecycle(r)
    \/ Sent

SpecResetRace == Init /\ [][NextResetRace]_vars

\* reset confirmations one after the other, while time passes
\* one register and one reset request at a time, with bodies that fail
\* validation among them
NextValidate ==
    \/ \E body \in RegisterBodies : RegStart(1, body)
    \/ RegLookup(1)
    \/ RegCreate(1)
    \/ RegRecycle(1)
    \/ \E body \in [email : WellFormedEmails] : ForgotPassword(body, "sent", "production")
    \/ \E body \in ResetBodies : RstStart(1, body)
    \/ RstGet(1)
    \/ RstUpdate(1)
    \/ RstMark(1)
    \/ RstRecycle(1)
    \/ Sent

SpecValidate == Init /\ [][NextValidate]_vars

\* one reset request at a time against a database whose update of the
\* token row can fail
NextResetFault ==
    \/ \E body \in Accounts : Register(body)
    \/ \E body \in [email : WellFormedEmails] : ForgotPassword(body, "sent", "production")
    \/ \E body \in ResetBodies : RstStart(1, body)
    \/ RstGet(1)
    \/ RstUpdate(1)
    \/ RstMark(1)
    \/ RstMarkThrows(1)
    \/ RstRecycle(1)
    \/ Sent

SpecResetFault == Init /\ [][NextResetFault]_vars

\* accounts that log in with their first password, reset it, and go on
\* using the session they have
NextKeep ==
    \/ \E body \in Accounts : Register(body)
    \/ \E body \in Accounts : Login(0, body, MaxGateSid)
    \/ \E body \in [email : WellFormedEmails] : ForgotPassword(body, "sent", "production")
    \/ \E body \in ResetBodies : RstStart(1, body)
    \/ RstGet(1)
    \/ RstUpdate(1)
    \/ RstMark(1)
    \/ RstRecycle(1)
    \/ \E c \in 0 .. MaxGateSid : Me(c)
    \/ \E c \in 0 .. MaxGateSid : GetTodos(c)
    \/ Sent

SpecKeep == Init /\ [][NextKeep]_vars

NextResetSeq ==
    \/ \E body \in Accounts : Register(body)
    \/ \E body \in [email : WellFormedEmails] : ForgotPassword(body, "sent", "production")
    \/ \E body \in ResetBodies : RstStart(1, body)
    \/ RstGet(1)
    \/ RstUpdate(1)
    \/ RstMark(1)
    \/ RstRecycle(1)
    \/ Tick(1, MaxHours)
    \/ Sent

SpecResetSeq == Init /\ [][NextResetSeq]_vars

\* password-reset requests and mail delivery
NextForgot ==
    \/ \E body \in Accounts : Register(body)
    \/ \E body \in [email : Emails], mail \in MailOutcomes, nodeEnv \in NodeEnvs :
          ForgotPassword(body, mail, nodeEnv)
    \/ Tick(1, MaxHours)
    \/ Sent

SpecForgot == Init /\ [][NextForgot]_vars

LoginBodies == [email : Emails, password : {"secret1", "secret2"}]

\* sessions: logins, logouts and expiry
NextSession ==
    \/ \E body \in Accounts : Register(body)
    \/ \E c \in 0 .. MaxSid, body \in LoginBodies : Login(c, body, MaxSid)
    \/ \E c \in 0 .. MaxSid : Logout(c)
    \/ \E c \in 0 .. MaxSid : Me(c)
    \/ \E c \in 0 .. MaxSid : GetTodos(c)
    \/ \E c \in 0 .. MaxSid :
          CreateTodo(c, [text |-> <<"buy milk">>, completed |-> <<>>], MaxSessionTodos)
    \/ Tick(SessionTTL, MaxWeeks * SessionTTL)
    \/ Sent

SpecSession == Init /\ [][NextSession]_vars

\* the authentication gate in front of every protected route
NextGate ==
    \/ \E body \in Accounts : Register(body)
    \/ \E body \in Accounts : Login(0, body, MaxGateSid)
    \/ \E c \in 0 .. MaxGateSid + 1 : Logout(c)
    \/ \E c \in 0 .. MaxGateSid + 1 : Me(c)
    \/ \E c \in 0 .. MaxGateSid + 1 : GetTodos(c)
    \/ \E c \in 0 .. MaxGateSid + 1 :
          CreateTodo(c, [text |-> <<"buy milk">>, completed |-> <<>>], MaxSessionTodos)
    \/ \E c \in 0 .. MaxGateSid + 1, n \in 1 .. MaxSessionTodos : GetTodo(c, <<n>>)
    \/ \E c \in 0 .. MaxGateSid + 1, n \in 1 .. MaxSessionTodos :
          /\ PatchTodo(c, <<n>>, [text |-> <<"walk dog">>, completed |-> <<TRUE>>,
                                  completedAt |-> <<>>])
          /\ UNCHANGED patches
    \/ \E c \in 0 .. MaxGateSid + 1, n \in 1 .. MaxSessionTodos : DeleteTodo(c, <<n>>)
    \/ Tick(SessionTTL, MaxWeeks * SessionTTL)
    \/ Sent

SpecGate == Init /\ [][NextGate]_vars

TodoIds == {<<>>} \cup {<<n>> : n \in 1 .. MaxTodos}

InsertBodies ==
    {[text |-> <<>>, completed |-> <<>>],
     [text |-> <<"buy milk">>, completed |-> <<>>],
     [text |-> <<"buy milk">>, completed |-> <<TRUE>>]}

UpdateBodies ==
    {[text |-> <<"walk dog">>, completed |-> <<>>, completedAt |-> <<>>],
     [text |-> <<>>, completed |-> <<TRUE>>, completedAt |-> <<>>],
     [text |-> <<>>, completed |-> <<FALSE>>, completedAt |-> <<>>],
     [text |-> <<>>, completed |-> <<>>, completedAt |-> << <<>> >>]}

\* the todo routes, used by two accounts; a PATCH changes the text, the flag
\* and the completion timestamp of the row it finds
NextTodo ==
    \/ \E body \in Accounts : Register(body)
    \/ \E body \in Accounts : Login(0, body, MaxTodoSid)
    \/ \E c \in 0 .. MaxTodoSid : GetTodos(c)
    \/ \E c \in 0 .. MaxTodoSid, id \in TodoIds : GetTodo(c, id)
    \/ \E c \in 0 .. MaxTodoSid, body \in InsertBodies : CreateTodo(c, body, MaxTodos)
    \/ \E c \in 0 .. MaxTodoSid, id \in TodoIds :
          /\ PatchTodo(c, id, [text |-> <<"walk dog">>, completed |-> <<TRUE>>,
                               completedAt |-> <<>>])
          /\ UNCHANGED patches
    \/ \E c \in 0 .. MaxTodoSid, id \in TodoIds : DeleteTodo(c, id)
    \/ Sent

SpecTodo == Init /\ [][NextTodo]_vars

Owner == [email |-> "a@x.com", password |-> "secret1"]

\* request bodies that name an owner
OwnerIds == {<<1>>, <<2>>}

OwnerInsertBodies == [text : {<<"buy milk">>}, completed : {<<>>}, userId : OwnerIds]

OwnerUpdateBodies ==
    [text : {<<"walk dog">>}, completed : {<<>>}, completedAt : {<<>>}, userId : OwnerIds]

\* two accounts, registered and logged in at the start, creating and
\* updating todos with bodies that name an owner
NextOwner ==
    \/ \E body \in Accounts : nextSid = 0 /\ Register(body)
    \/ \E body \in Accounts : Len(users) = 2 /\ Login(0, body, MaxTodoSid)
    \/ \E c \in 1 .. MaxTodoSid, body \in OwnerInsertBodies : CreateTodo(c, body, MaxTodos)
    \/ \E c \in 1 .. MaxTodoSid, n \in 1 .. MaxTodos, body \in OwnerUpdateBodies :
          PatchTodoTraced(c, <<n>>, body)
    \/ \E c \in 1 .. MaxTodoSid : GetTodos(c)
    \/ Sent

SpecOwner == Init /\ [][NextOwner]_vars

ToggleBodies ==
    UpdateBodies \cup
    {[text |-> <<"walk dog">>, completed |-> <<TRUE>>, completedAt |-> << <<>> >>]}

\* one account, registered and logged in at the start, creating, updating
\* and deleting its todos while time passes
NextToggle ==
    \/ now = 0 /\ Register(Owner)
    \/ now = 0 /\ Login(0, Owner, MaxGateSid)
    \/ \E c \in 1 .. MaxGateSid, body \in InsertBodies : CreateTodo(c, body, MaxSessionTodos)
    \/ \E c \in 1 .. MaxGateSid, n \in 1 .. MaxSessionTodos, body \in ToggleBodies :
          PatchTodoTraced(c, <<n>>, body)
    \/ \E c \in 1 .. MaxGateSid, n \in 1 .. MaxSessionTodos : DeleteTodo(c, <<n>>)
    \/ Tick(1, MaxHours)
    \/ Sent

SpecToggle == Init /\ [][NextToggle]_vars

\* The sessions table holds the user id inside sess with no foreign key to
\* users, so a users row can be deleted in the database while a session of
\* the user is stored.  The place of the row stays taken (a serial id is
\* not given out again) by a row that no id and no email matches.
UserRowRemoved(i) ==
    /\ i \in DOMAIN users
    /\ users[i].id # 0
    /\ users' = [users EXCEPT ![i] = [id |-> 0, email |-> "", password |-> <<>>]]
    /\ UNCHANGED <<resets, todos, nextTodoId, sessions, nextSid, issued, now,
                   reg, rst, okTokens, resp, patches>>

\* one account with todos whose users row is deleted behind its sessions
NextOrphan ==
    \/ Len(users) = 0 /\ Register(Owner)
    \/ Login(0, Owner, MaxGateSid)
    \/ \E i \in DOMAIN users : UserRowRemoved(i)
    \/ \E c \in 1 .. MaxGateSid : Me(c)
    \/ \E c \in 1 .. MaxGateSid : GetTodos(c)
    \/ \E c \in 1 .. MaxGateSid :
          CreateTodo(c, [text |-> <<"buy milk">>, completed |-> <<>>], MaxSessionTodos)
    \/ \E c \in 1 .. MaxGateSid, n \in 1 .. MaxSessionTodos : GetTodo(c, <<n>>)
    \/ \E c \in 1 .. MaxGateSid, n \in 1 .. MaxSessionTodos :
          /\ PatchTodo(c, <<n>>, [text |-> <<"walk dog">>, completed |-> <<TRUE>>,
                                  completedAt |-> <<>>])
          /\ UNCHANGED patches
    \/ \E c \in 1 .. MaxGateSid, n \in 1 .. MaxSessionTodos : DeleteTodo(c, <<n>>)
    \/ Tick(SessionTTL, MaxWeeks * SessionTTL)
    \/ Sent

SpecOrphan == Init /\ [][NextOrphan]_vars

\* two accounts, registered and logged in at the start, creating todos and
\* listing them while time passes
NextList ==
    \/ \E body \in Accounts : now = 0 /\ Register(body)
    \/ \E body \in Accounts : now = 0 /\ Login(0, body, MaxTodoSid)
    \/ \E c \in 1 .. MaxTodoSid :
          CreateTodo(c, [text |-> <<"buy milk">>, completed |-> <<>>], MaxListTodos)
    \/ \E c \in 1 .. MaxTodoSid : GetTodos(c)
    \/ Tick(1, MaxHours)
    \/ Sent

SpecList == Init /\ [][NextList]_vars

\* two accounts reading, updating and deleting todos by id, also by ids
\* that were never given or are no longer there
NextDelete ==
    \/ \E body \in Accounts : Register(body)
    \/ \E body \in Accounts : Login(0, body, MaxTodoSid)
    \/ \E c \in 1 .. MaxTodoSid :
          CreateTodo(c, [text |-> <<"buy milk">>, completed |-> <<>>], MaxSessionTodos)
    \/ \E c \in 1 .. MaxTodoSid, n \in 1 .. MaxSessionTodos + 1 : GetTodo(c, <<n>>)
    \/ \E c \in 1 .. MaxTodoSid, n \in 1 .. MaxSessionTodos + 1 :
          /\ PatchTodo(c, <<n>>, [text |-> <<"walk dog">>, completed |-> <<>>,
                                  completedAt |-> <<>>])
          /\ UNCHANGED patches
    \/ \E c \in 1 .. MaxTodoSid, n \in 1 .. MaxSessionTodos + 1 : DeleteTodo(c, <<n>>)
    \/ Sent

SpecDelete == Init /\ [][NextDelete]_vars

FailedOutcomes == MailOutcomes \ {"sent"}

\* password resets while the mail service delivers nothing
NextRecover ==
    \/ \E body \in Accounts : Register(body)
    \/ \E body \in [email : WellFormedEmails], mail \in FailedOutcomes, nodeEnv \in NodeEnvs :
          ForgotPassword(body, mail, nodeEnv)
    \/ \E body \in ResetBodies : RstStart(1, body)
    \/ RstGet(1)
    \/ RstUpdate(1)
    \/ RstMark(1)
    \/ RstRecycle(1)
    \/ Tick(1, MaxHours)
    \/ Sent

SpecRecover == Init /\ [][NextRecover]_vars

\* password resets followed by logins with the old and the new password
NextRelogin ==
    \/ \E body \in Accounts : Register(body)
    \/ \E body \in [email : WellFormedEmails] : ForgotPassword(body, "sent", "production")
    \/ \E body \in ResetBodies : RstStart(1, body)
    \/ RstGet(1)
    \/ RstUpdate(1)
    \/ RstMark(1)
    \/ RstRecycle(1)
    \/ \E body \in LoginBodies : Login(0, body, MaxGateSid)
    \/ Sent

SpecRelogin == Init /\ [][NextRelogin]_vars

----------------------------------------------------------------------------
(* Claims *)

\* C1: a reset token works once.  A POST /reset-password that arrives after
\* a reset with the same token has been answered 200 is answered 400, with
\* the message "Invalid or expired reset token" when its body passes
\* resetPasswordSchema (a body that does not is answered 400 "Invalid reset
\* data"), and it writes neither a password hash nor a used flag.
C1_TokenWorksOnce ==
    \A r \in RstIds :
        (rst[r].pc # "idle" /\ rst[r].afterOk) =>
            /\ ~rst[r].wrotePassword
            /\ ~rst[r].wroteUsed
            /\ rst[r].pc \in {"get", "done"}
            /\ rst[r].pc = "done" =>
                  /\ rst[r].status = 400
                  /\ resetPasswordSchema(rst[r].body) =>
                        rst[r].message = "Invalid or expired reset token"

C1_Witness ==
    \E r \in RstIds :
        /\ rst[r].pc = "done"
        /\ rst[r].afterOk
        /\ resetPasswordSchema(rst[r].body)
        /\ rst[r].status = 400
        /\ \E i \in DOMAIN users : users[i].password = bcryptHash("secret2")

\* C2: of two POST /reset-password requests with the same token, at most
\* one is answered 200 and the other is answered 400.
C2_AtMostOneSucceeds ==
    \A r1, r2 \in RstIds :
        (/\ r1 # r2
         /\ rst[r1].pc = "done" /\ rst[r2].pc = "done"
         /\ rst[r1].body.token = rst[r2].body.token
         /\ resetPasswordSchema(rst[r1].body) /\ resetPasswordSchema(rst[r2].body)
         /\ rst[r1].status = 200)
        => rst[r2].status = 400

\* C3: a POST /reset-password that arrives after the expiry of its token is
\* answered 400, and it writes neither a password hash nor a used flag.
C3_ExpiredTokenFails ==
    \A r \in RstIds :
        (rst[r].pc # "idle" /\ rst[r].late) =>
            /\ ~rst[r].wrotePassword
            /\ ~rst[r].wroteUsed
            /\ rst[r].pc \in {"get", "done"}
            /\ rst[r].pc = "done" => rst[r].status = 400

C3_Witness ==
    \E r \in RstIds :
        /\ rst[r].pc = "done"
        /\ rst[r].late
        /\ rst[r].message = "Reset token has expired"
        /\ \E i \in DOMAIN resets :
              resets[i].token = rst[r].body.token /\ ~resets[i].used

\* C4: a POST /register that arrives when a user row with its email exists
\* is answered 400, with the message "Email already registered" when its
\* body passes registerSchema (a body that does not is answered 400 "Invalid
\* user data"); no two rows share an email, and no step of such a request
\* changes the users table.
C4_Rejected ==
    \A r \in RegIds :
        (reg[r].pc = "done" /\ reg[r].existed) =>
            /\ reg[r].status = 400
            /\ registerSchema(reg[r].body) => reg[r].message = "Email already registered"

C4_OneRow ==
    \A i, j \in DOMAIN users : users[i].email = users[j].email => i = j

C4_Frame ==
    \A r \in RegIds :
        (reg[r].pc # "idle" /\ reg[r].existed /\ reg'[r] # reg[r]) => users' = users

C5_RaceLoserConflict ==
    \A r \in RegIds :
        (reg[r].pc = "done" /\ reg[r].conflict) =>
            /\ reg[r].status = 400
            /\ reg[r].message = "Email already registered"
            /\ Cardinality({i \in DOMAIN users : users[i].email = reg[r].body.email}) = 1

\* C7: POST /forgot-password with a well-formed email is answered 200 with
\* the generic message, whether or not the email is registered and whatever
\* the mail service did.
C7_GenericAlways ==
    (resp.route = "forgot" /\ IsEmail(resp.email)) =>
        /\ resp.status = 200
        /\ resp.message = GenericMessage

\* C6: POST /login with a well-formed body answers an unknown email and a
\* registered email with a wrong password alike: authenticateUser gives the
\* same negative result, and the answer is 401 with the same message and
\* nothing else.
C6_NoEnumeration ==
    /\ \A b1, b2 \in LoginBodies :
          (/\ loginSchema(b1) /\ loginSchema(b2)
           /\ ~\E i \in DOMAIN users : users[i].email = b1.email
           /\ \E i \in DOMAIN users :
                 /\ users[i].email = b2.email
                 /\ users[i].password # bcryptHash(b2.password))
          => /\ authenticateUser(users, b1.email, b1.password)
                   = authenticateUser(users, b2.email, b2.password)
             /\ LoginAnswer(b1) = LoginAnswer(b2)
             /\ LoginAnswer(b1).status = 401
    /\ (resp.route = "login" /\ resp.status = 401) =>
          resp = [route |-> "login", req |-> resp.req, status |-> 401,
                  message |-> "Invalid email or password"]

C6_Witness ==
    /\ resp.route = "login"
    /\ resp.status = 401
    /\ \E i \in DOMAIN users : users[i].email = resp.req.email
    /\ \E e \in WellFormedEmails : \A i \in DOMAIN users : users[i].email # e

\* C8: a todo is invisible to every user but its owner.  GET, PATCH and
\* DELETE /todos/:id by another authenticated user, with a numeric id, are
\* answered 404 "Todo not found" and nothing more, as for an id that does
\* not exist, and no request of another user changes or removes the row.
TodoRoutes == {"getTodos", "getTodo", "createTodo", "patchTodo", "deleteTodo"}

C8_Answer ==
    (/\ resp.route \in {"getTodo", "patchTodo", "deleteTodo"}
     /\ resp.actor # <<>>
     /\ resp.id # <<>>
     /\ \E x \in todos : x.id = resp.id[1] /\ x.userId # resp.actor[1])
    => resp = [route |-> resp.route, cookie |-> resp.cookie, actor |-> resp.actor,
               id |-> resp.id, status |-> 404, message |-> "Todo not found"]

C8_Frame ==
    \A x \in todos :
        (resp.route = "none" /\ resp'.route \in TodoRoutes /\ resp'.actor # <<x.userId>>)
        => x \in todos'

C8_Isolation == []C8_Answer /\ [][C8_Frame]_vars

C8_Witness ==
    /\ resp.route = "patchTodo"
    /\ resp.status = 404
    /\ resp.actor # <<>>
    /\ \E x \in todos : x.id = resp.id[1] /\ x.userId # resp.actor[1]

\* C9: a request to a protected route whose cookie names no session that is
\* stored, unexpired and of an existing user is answered 401
\* "Authentication required", and it changes no table.
ProtectedRoutes == TodoRoutes \cup {"me"}

ValidSession(c) ==
    \E x \in sessions :
        /\ x.sid = c
        /\ x.expire >= now
        /\ \E i \in DOMAIN users : users[i].id = x.userId

C9_Step ==
    (resp.route = "none" /\ resp'.route \in ProtectedRoutes /\ ~ValidSession(resp'.cookie))
    => /\ resp'.status = 401
       /\ resp'.message = "Authentication required"
       /\ UNCHANGED <<users, resets, todos, nextTodoId, sessions>>

C9_GateBlocks == [][C9_Step]_vars

C9_Witness ==
    /\ resp.route = "deleteTodo"
    /\ resp.status = 401
    /\ \E x \in sessions : x.sid = resp.cookie /\ x.expire < now
    /\ \E x \in todos : <<x.id>> = resp.id

\* C10: a stored, unexpired session resolves to the user whose login created
\* it: GET /me answers with that user's id and email, and the todo routes
\* act for that user's id.
IssuedUser(sid) ==
    SelectSeq(users, LAMBDA u : [sid |-> sid, email |-> u.email] \in issued)

C10_SessionResolves ==
    /\ \A x \in sessions :
          x.expire >= now => (reqUser(x.sid) # <<>> /\ reqUser(x.sid) = IssuedUser(x.sid))
    /\ (resp.route = "login" /\ resp.status = 200) =>
          /\ resp.user.email = resp.req.email
          /\ IssuedUser(resp.setCookie) # <<>>
          /\ resp.user = PublicUser(IssuedUser(resp.setCookie)[1])
    /\ (resp.route \in ProtectedRoutes /\ resp.actor # <<>>) =>
          /\ IssuedUser(resp.cookie) # <<>>
          /\ resp.actor = <<IssuedUser(resp.cookie)[1].id>>
    /\ (resp.route = "me" /\ resp.status = 200) =>
          resp.data = PublicUser(IssuedUser(resp.cookie)[1])
    /\ (resp.route = "createTodo" /\ resp.status = 201) =>
          \A x \in resp.data : x.userId = IssuedUser(resp.cookie)[1].id
    /\ (resp.route = "getTodos" /\ resp.status = 200) =>
          \A i \in DOMAIN resp.data : resp.data[i].userId = IssuedUser(resp.cookie)[1].id

C10_Witness ==
    /\ resp.route = "me"
    /\ resp.status = 200
    /\ resp.data = [id |-> 2, email |-> "b@x.com"]
    /\ Cardinality({x.userId : x \in sessions}) = 2

\* C11: POST /logout is answered 200 and leaves no session row for the
\* cookie it came with; a session id that has lost its row never gets one
\* again (a login starts a session under a new id), and a request to a
\* protected route with the cookie of such a session is answered 401.
LoggedOut(c) == c \in 1 .. nextSid /\ \A x \in sessions : x.sid # c

C11_Step ==
    /\ (resp.route = "none" /\ resp'.route = "logout") =>
          /\ resp'.status = 200
          /\ \A x \in sessions' : x.sid # resp'.cookie
    /\ \A x \in sessions' \ sessions : x.sid > nextSid
    /\ (resp.route = "none" /\ resp'.route \in ProtectedRoutes /\ LoggedOut(resp'.cookie)) =>
          /\ resp'.status = 401
          /\ resp'.message = "Authentication required"

C11_LogoutInvalidates == [][C11_Step]_vars

\* session 1 is the only one ever issued, it was logged out within its 7 days
C11_Witness ==
    /\ resp.route = "me"
    /\ resp.cookie = 1
    /\ resp.status = 401
    /\ nextSid = 1
    /\ sessions = {}
    /\ now = 0

\* C12: a login stores its session with an expiry 7 days later, which no
\* later request changes; a request to a protected route whose cookie names
\* a stored session past its expiry is answered 401 "Authentication
\* required", and the row stays in the table.
C12_Step ==
    /\ (resp.route = "none" /\ resp'.route = "login" /\ resp'.status = 200) =>
          \E x \in sessions' : x.sid = resp'.setCookie /\ x.expire = now + SessionTTL
    /\ \A x \in sessions, y \in sessions' : x.sid = y.sid => x = y
    /\ (/\ resp.route = "none"
        /\ resp'.route \in ProtectedRoutes
        /\ \E x \in sessions : x.sid = resp'.cookie /\ now > x.expire)
       => /\ resp'.status = 401
          /\ resp'.message = "Authentication required"
          /\ \E x \in sessions' : x.sid = resp'.cookie

C13_FlagStamps ==
    /\ \A i \in DOMAIN patches :
          LET e == patches[i] IN
          e.body.completed # <<>> =>
             /\ e.after.completed = e.body.completed[1]
             /\ e.after.completedAt = IF e.body.completed[1] THEN <<e.at>> ELSE <<>>
    /\ (resp.route = "patchTodo" /\ resp.status = 200) =>
          resp.data = {x \in todos : <<x.id>> = resp.id}

C13_Witness ==
    /\ patches # <<>>
    /\ patches[1].body.completed = <<FALSE>>
    /\ patches[1].before.completed
    /\ patches[1].before.completedAt # <<>>
    /\ patches[1].before.completedAt[1] > 0
    /\ patches[1].after.completedAt = <<>>

\* C14: when a PATCH with completed false has taken the completion
\* timestamp from a todo and the next PATCH of that todo sets completed to
\* true, the todo had no timestamp in between and gets the time of the
\* second update as its timestamp, which is not earlier than the timestamp
\* it had before the two updates (the clock is taken not to run backwards).
C14_FreshStamp ==
    \A i \in DOMAIN patches :
        LET e == patches[i] IN
        (e.body.completed = <<TRUE>> /\ e.cleared # <<>>) =>
            /\ e.before.completedAt = <<>>
            /\ e.after.completedAt = <<e.at>>
            /\ e.after.completedAt[1] >= e.cleared[1]

C14_Witness ==
    /\ patches # <<>>
    /\ patches[1].body.completed = <<TRUE>>
    /\ patches[1].cleared # <<>>
    /\ patches[1].after.completedAt # <<>>
    /\ patches[1].after.completedAt[1] > patches[1].cleared[1]

\* C14 as the spec states it: the new timestamp is later than the one the
\* todo had before the two updates.
C14_LaterStamp ==
    \A i \in DOMAIN patches :
        LET e == patches[i] IN
        (e.body.completed = <<TRUE>> /\ e.cleared # <<>>) =>
            /\ e.before.completedAt = <<>>
            /\ e.after.completedAt # <<>>
            /\ e.after.completedAt[1] > e.cleared[1]

\* C15: a PATCH leaves alone what its body does not name: id, owner and
\* creation time always, the text when the body has no text, the completed
\* flag and the completion timestamp when the body has neither.
C15_PartialUpdate ==
    \A i \in DOMAIN patches :
        LET e == patches[i] IN
        /\ e.after.id = e.before.id
        /\ e.after.userId = e.before.userId
        /\ e.after.createdAt = e.before.createdAt
        /\ e.body.text = <<>> => e.after.text = e.before.text
        /\ (e.body.completed = <<>> /\ e.body.completedAt = <<>>) =>
              /\ e.after.completed = e.before.completed
              /\ e.after.completedAt = e.before.completedAt

\* a text-only PATCH of a completed, stamped todo
C15_Witness ==
    /\ patches # <<>>
    /\ patches[1].body = [text |-> <<"walk dog">>, completed |-> <<>>, completedAt |-> <<>>]
    /\ patches[1].before.text = "buy milk"
    /\ patches[1].after.text = "walk dog"
    /\ patches[1].after.completed
    /\ patches[1].after.completedAt # <<>>
    /\ patches[1].at > patches[1].after.completedAt[1]

\* C16: the completion timestamp of every todo is non-null exactly when its
\* completed flag is true.
C16_StampIffCompleted ==
    \A x \in todos : (x.completedAt # <<>>) <=> x.completed

\* C17: GET /todos of an authenticated user answers 200 with the rows of
\* the todos table whose owner is that user, each once and no other row, in
\* ascending order of creation time.
C17_OwnRowsInOrder ==
    (resp.route = "getTodos" /\ resp.status = 200) =>
        LET list == resp.data
            mine == {x \in todos : <<x.userId>> = resp.actor}
        IN /\ {list[i] : i \in DOMAIN list} = mine
           /\ Len(list) = Cardinality(mine)
           /\ \A i, j \in DOMAIN list : i < j => list[i].createdAt <= list[j].createdAt

C17_Witness ==
    /\ resp.route = "getTodos"
    /\ resp.status = 200
    /\ Len(resp.data) = 2
    /\ resp.data[1].createdAt < resp.data[2].createdAt
    /\ \E x \in todos :
          /\ <<x.userId>> # resp.actor
          /\ resp.data[1].createdAt < x.createdAt
          /\ x.createdAt < resp.data[2].createdAt

\* C18: DELETE /todos/:id by an authenticated user with a numeric id is
\* answered 200 and removes the row when a row has the id and the user as
\* owner, and is answered 404 "Todo not found" and removes nothing
\* otherwise; ids are not given twice, and GET, PATCH and DELETE of an id
\* whose row is gone are answered 404 for every user and change nothing.
C18_Step ==
    /\ \A y \in todos' \ todos : y.id >= nextTodoId \/ \E x \in todos : x.id = y.id
    /\ (/\ resp.route = "none"
        /\ resp'.route \in {"getTodo", "patchTodo", "deleteTodo"}
        /\ resp'.actor # <<>>
        /\ resp'.id # <<>>)
       => LET own == {x \in todos : <<x.id>> = resp'.id /\ <<x.userId>> = resp'.actor} IN
          /\ (resp'.route = "deleteTodo" /\ own # {}) =>
                /\ resp'.status = 200
                /\ todos' = todos \ own
                /\ \A y \in todos' : <<y.id>> # resp'.id
          /\ (resp'.route = "deleteTodo" /\ own = {}) =>
                /\ resp'.status = 404
                /\ resp'.message = "Todo not found"
                /\ todos' = todos
          /\ (resp'.id[1] < nextTodoId /\ \A x \in todos : <<x.id>> # resp'.id) =>
                /\ resp'.status = 404
                /\ resp'.message = "Todo not found"
                /\ todos' = todos

C18_DeleteRemoves == [][C18_Step]_vars

\* todo 1 was created and deleted, and a user then asks for it
C18_Witness ==
    /\ resp.route = "getTodo"
    /\ resp.status = 404
    /\ resp.actor # <<>>
    /\ resp.id = <<1>>
    /\ nextTodoId > 1
    /\ \A x \in todos : x.id # 1

\* C19: with no mail delivered, POST /forgot-password for a registered
\* email is answered 200 and adds an unconsumed token row that expires an
\* hour later; a row is never removed and is consumed only by the reset
\* that uses its token; and a POST /reset-password that looks its token up
\* while the row is unconsumed and not past its expiry goes on to write the
\* new password and to answer 200.
C19_Forgot ==
    (/\ resp.route = "none"
     /\ resp'.route = "forgot"
     /\ \E i \in DOMAIN users : users[i].email = resp'.email)
    => /\ resp'.status = 200
       /\ Len(resets') = Len(resets) + 1
       /\ LET row == resets'[Len(resets')] IN
          /\ row.email = resp'.email
          /\ row.used = FALSE
          /\ row.expiresAt = now + ResetTTL
          /\ \A i \in DOMAIN resets : resets[i].token # row.token

C19_Kept ==
    /\ Len(resets') >= Len(resets)
    /\ \A i \in DOMAIN resets :
          \/ resets'[i] = resets[i]
          \/ /\ resets'[i] = [resets[i] EXCEPT !.used = TRUE]
             /\ \E r \in RstIds : rst[r].pc = "mark" /\ rst[r].body.token = resets[i].token

C19_Reset ==
    \A r \in RstIds :
        /\ (/\ rst[r].pc = "get"
            /\ rst'[r] # rst[r]
            /\ \E i \in DOMAIN resets :
                  /\ resets[i].token = rst[r].body.token
                  /\ ~resets[i].used
                  /\ now <= resets[i].expiresAt)
           => rst'[r].pc = "update"
        /\ (rst[r].pc = "update" /\ rst'[r] # rst[r]) =>
              /\ rst'[r].pc = "mark"
              /\ \E u \in DOMAIN users' :
                    /\ users'[u].email = rst[r].email
                    /\ users'[u].password = bcryptHash(rst[r].body.password)
        /\ (rst[r].pc = "mark" /\ rst'[r] # rst[r]) =>
              /\ rst'[r].pc = "done"
              /\ rst'[r].status = 200

C19_FlowSurvives == [][C19_Forgot /\ C19_Kept /\ C19_Reset]_vars

\* a reset answered 200 at the last hour of a token that no mail delivered
C19_Witness ==
    /\ rst[1].pc = "done"
    /\ rst[1].status = 200
    /\ \E i \in DOMAIN resets :
          /\ resets[i].token = rst[1].body.token
          /\ now = resets[i].expiresAt
          /\ resets[i].used

\* C20: when a POST /reset-password has been answered 200 for a token of
\* email E with password P, a login with E and P is answered 200 and a
\* login with E and any other password 401; the reset has changed the
\* password hash of the user with email E and of no other user; and every
\* login is answered 200 exactly when its password matches the stored hash.
C20_AfterReset ==
    \A r \in RstIds :
        (rst[r].pc = "done" /\ rst[r].status = 200) =>
            /\ LoginAnswer([email |-> rst[r].email,
                            password |-> rst[r].body.password]).status = 200
            /\ \A p \in Passwords \ {rst[r].body.password} :
                  LoginAnswer([email |-> rst[r].email, password |-> p]).status = 401

C20_Frame ==
    /\ Len(users') >= Len(users)
    /\ \A i \in DOMAIN users :
          users'[i] # users[i] =>
             \E r \in RstIds :
                /\ rst[r].pc = "update"
                /\ rst'[r].pc = "mark"
                /\ users[i].email = rst[r].email
                /\ users'[i] = [users[i] EXCEPT !.password = bcryptHash(rst[r].body.password)]

C20_Login ==
    (resp.route = "none" /\ resp'.route = "login" /\ loginSchema(resp'.req)) =>
        /\ resp'.status \in {200, 401}
        /\ resp'.status = 200 <=>
              \E i \in DOMAIN users :
                 /\ users[i].email = resp'.req.email
                 /\ users[i].password = bcryptHash(resp'.req.password)

C20_NewPasswordOnly == []C20_AfterReset /\ [][C20_Frame /\ C20_Login]_vars

\* a login with the new password next to a second account
C20_Witness ==
    /\ rst[1].pc = "done"
    /\ rst[1].status = 200
    /\ resp.route = "login"
    /\ resp.status = 200
    /\ resp.req = [email |-> rst[1].email, password |-> rst[1].body.password]
    /\ Len(users) = 2
    /\ \E i \in DOMAIN users :
          users[i].email # rst[1].email /\ users[i].password = bcryptHash("secret1")

----------------------------------------------------------------------------
(* C21: an email can have several outstanding reset tokens.  A           *)
(* forgot-password request leaves every earlier row as it was, consuming  *)
(* a token changes no row of another token, and a row that is not         *)
(* consumed and not past its own expiry is the row a reset with its token *)
(* finds and accepts.                                                     *)

C21_Forgot ==
    (resp.route = "none" /\ resp'.route = "forgot") =>
        \A i \in DOMAIN resets : i \in DOMAIN resets' /\ resets'[i] = resets[i]

C21_Consume ==
    \A r \in RstIds :
       (rst[r].pc = "mark" /\ rst'[r].pc = "done") =>
          \A i \in DOMAIN resets :
             resets[i].token # rst[r].body.token => resets'[i] = resets[i]

C21_Usable ==
    \A i \in DOMAIN resets :
       (~resets[i].used /\ now <= resets[i].expiresAt) =>
          /\ getPasswordReset(resets, resets[i].token) = <<resets[i]>>
          /\ ~IsExpired(now, resets[i])

C21_TokensIndependent == []C21_Usable /\ [][C21_Forgot /\ C21_Consume]_vars

\* the older of two tokens of one email is redeemed after the newer one
\* has been consumed
C21_Witness ==
    /\ Len(resets) = 2
    /\ resets[1].email = resets[2].email
    /\ 2 \in okTokens
    /\ rst[1].pc = "done"
    /\ rst[1].status = 200
    /\ rst[1].body.token = 1
    /\ rst[1].afterOk = FALSE

----------------------------------------------------------------------------
(* C22: a register or reset-password request whose body fails validation  *)
(* is answered 400 with the failing fields named and writes nothing: no   *)
(* user row for an invalid email or a password of fewer than 6            *)
(* characters, no consumed token and no changed password for a new        *)
(* password of fewer than 6 characters.  Only valid bodies reach storage. *)

C22_Register ==
    \A r \in RegIds :
       (/\ reg[r].pc = "idle"
        /\ reg'[r].pc # "idle"
        /\ \/ reg'[r].body.email \notin WellFormedEmails
           \/ Len(reg'[r].body.password) < 6) =>
          /\ reg'[r].pc = "done"
          /\ reg'[r].status = 400
          /\ reg'[r].message = "Invalid user data"
          /\ "email" \in reg'[r].errors <=> reg'[r].body.email \notin WellFormedEmails
          /\ "password" \in reg'[r].errors <=> Len(reg'[r].body.password) < 6
          /\ UNCHANGED <<users, resets, todos, sessions>>

C22_Reset ==
    \A r \in RstIds :
       (/\ rst[r].pc = "idle"
        /\ rst'[r].pc # "idle"
        /\ Len(rst'[r].body.password) < 6) =>
          /\ rst'[r].pc = "done"
          /\ rst'[r].status = 400
          /\ rst'[r].message = "Invalid reset data"
          /\ "password" \in rst'[r].errors
          /\ UNCHANGED <<users, resets, todos, sessions>>

C22_Stored ==
    /\ \A i \in DOMAIN users :
          /\ users[i].email \in WellFormedEmails
          /\ \E pw \in Passwords : Len(pw) >= 6 /\ users[i].password = bcryptHash(pw)
    /\ \A r \in RegIds :
          reg[r].pc \in {"lookup", "create"} =>
             reg[r].body.email \in WellFormedEmails /\ Len(reg[r].body.password) >= 6
    /\ \A r \in RstIds :
          rst[r].pc \in {"get", "update", "mark"} => Len(rst[r].body.password) >= 6

C22_InvalidWritesNothing == []C22_Stored /\ [][C22_Register /\ C22_Reset]_vars

\* a reset with a 5-character password for a token that is outstanding,
\* next to a rejected registration
C22_Witness ==
    /\ rst[1].pc = "done"
    /\ rst[1].status = 400
    /\ rst[1].errors = {"password"}
    /\ getPasswordReset(resets, rst[1].body.token) # <<>>
    /\ reg[1].pc = "done"
    /\ reg[1].status = 400
    /\ reg[1].errors = {"email", "password"}

----------------------------------------------------------------------------
(* C23: the owner of a todo is the user of the session that created it    *)
(* and never changes: a row appears only with a 201 of POST /todos and    *)
(* carries that session's user id whatever owner the body names, and no   *)
(* request, a PATCH whose body names an owner included, changes the owner *)
(* of a stored row.                                                       *)

C23_Create ==
    \A y \in todos' :
       (\A x \in todos : x.id # y.id) =>
          /\ resp.route = "none"
          /\ resp'.route = "createTodo"
          /\ resp'.status = 201
          /\ IssuedUser(resp'.cookie) # <<>>
          /\ y.userId = IssuedUser(resp'.cookie)[1].id

C23_Fixed ==
    \A x \in todos, y \in todos' : x.id = y.id => y.userId = x.userId

C23_OwnerFixed == [][C23_Create /\ C23_Fixed]_vars

\* a todo that user 1 created and then updated, both with a body naming
\* user 2 as the owner
C23_Witness ==
    /\ Len(users) = 2
    /\ patches # <<>>
    /\ patches[1].body.userId = <<2>>
    /\ patches[1].before.text = "buy milk"
    /\ patches[1].after.text = "walk dog"
    /\ patches[1].after.userId = 1
    /\ patches[1].after \in todos
    /\ resp.route = "patchTodo"
    /\ resp.actor = <<1>>

----------------------------------------------------------------------------
(* C24: an update whose body has no completed flag leaves the stored      *)
(* completion timestamp as it was.                                        *)

C24_StampOnlyWithFlag ==
    (patches # <<>> /\ patches[1].body.completed = <<>>) =>
        patches[1].after.completedAt = patches[1].before.completedAt

----------------------------------------------------------------------------
(* C25: a reset-password request changes the password and consumes the    *)
(* token as one unit: when it has been answered, it has written the       *)
(* password exactly if it has marked the token used and answered 200.     *)

C25_AllOrNothing ==
    \A r \in RstIds :
       rst[r].pc = "done" =>
          (rst[r].wrotePassword <=> (rst[r].wroteUsed /\ rst[r].status = 200))

----------------------------------------------------------------------------
(* C26: reset-token rows only move forward.  Every step keeps every row,  *)
(* with its token, email and expiry, and a row that is used stays used.   *)

C26_Step ==
    \A i \in DOMAIN resets :
       /\ i \in DOMAIN resets'
       /\ resets'[i].token = resets[i].token
       /\ resets'[i].email = resets[i].email
       /\ resets'[i].expiresAt = resets[i].expiresAt
       /\ resets[i].used => resets'[i].used

C26_RowsMoveForward == [][C26_Step]_vars

\* two requests have consumed the same token, one after the other's write,
\* and the row is used; a second row was inserted meanwhile
C26_Witness ==
    /\ Len(resets) = 2
    /\ resets[1].used
    /\ ~resets[2].used
    /\ \A r \in RstIds :
          rst[r].pc = "done" /\ rst[r].wroteUsed /\ rst[r].body.token = 1

----------------------------------------------------------------------------
(* C27: a forgot-password request for an email that has no user row       *)
(* writes no token row and attempts no mail delivery, so the email of     *)
(* every token row is the email of a user.                                *)

C27_UnknownEmail ==
    (/\ resp.route = "none"
     /\ resp'.route = "forgot"
     /\ ~\E i \in DOMAIN users : users[i].email = resp'.email) =>
        /\ resets' = resets
        /\ resp'.delivery = <<>>
        /\ resp'.log = <<>>

C27_TokenHasUser ==
    \A i \in DOMAIN resets : \E u \in DOMAIN users : users[u].email = resets[i].email

C27_TokensOfUsersOnly == []C27_TokenHasUser /\ [][C27_UnknownEmail]_vars

\* a well-formed email without an account has been asked for while a token
\* of an account is outstanding
C27_Witness ==
    /\ resp.route = "forgot"
    /\ resp.status = 200
    /\ resp.email \in WellFormedEmails
    /\ ~\E i \in DOMAIN users : users[i].email = resp.email
    /\ resets # <<>>

----------------------------------------------------------------------------
(* C28: when the mail of a forgot-password request could not be           *)
(* delivered, the token of the new row is written to the server log, and  *)
(* the response carries it exactly when the server runs in development    *)
(* mode; in every other mode, and whenever the mail was delivered or none *)
(* was attempted, the response carries no token.                          *)

C28_TokenOnlyInDevelopment ==
    resp.route = "forgot" =>
       /\ resp.delivery \in {<<>>, <<"sent">>} =>
             "resetToken" \notin DOMAIN resp /\ resp.log = <<>>
       /\ resp.delivery \in {<<"no_api_key">>, <<"send_failed">>} =>
             /\ resp.status = 200
             /\ resp.log # <<>>
             /\ \E i \in DOMAIN resets :
                   /\ resets[i].token = resp.log[1]
                   /\ resets[i].email = resp.email
             /\ resp.nodeEnv = "development" => resp.resetToken = resp.log
             /\ resp.nodeEnv # "development" => resp.resetToken = <<>>

\* a failed delivery in production: the token is in the log and not in the
\* response
C28_Witness ==
    /\ resp.route = "forgot"
    /\ resp.delivery = <<"send_failed">>
    /\ resp.nodeEnv = "production"
    /\ resp.resetToken = <<>>
    /\ resp.log # <<>>
    /\ \E i \in DOMAIN resets : resets[i].token = resp.log[1] /\ ~resets[i].used

----------------------------------------------------------------------------
(* C29: a password reset does not end the sessions of the user.  No step  *)
(* of a reset-password request changes the session store or the user a    *)
(* session resolves to, and a request with the cookie of a stored session *)
(* is answered 200 for the user the session was issued to, also after     *)
(* that user's password has been reset.                                   *)

C29_Frame ==
    (\E r \in RstIds : rst'[r] # rst[r]) =>
        /\ sessions' = sessions
        /\ \A x \in sessions :
              /\ getUser(users', x.userId) # <<>>
              /\ getUser(users', x.userId)[1].email = getUser(users, x.userId)[1].email

C29_Answer ==
    (/\ resp.route = "none"
     /\ resp'.route \in {"me", "getTodos"}
     /\ \E x \in sessions : x.sid = resp'.cookie) =>
        /\ resp'.status = 200
        /\ IssuedUser(resp'.cookie) # <<>>
        /\ resp'.actor = <<IssuedUser(resp'.cookie)[1].id>>

C29_SessionsSurviveReset == [][C29_Frame /\ C29_Answer]_vars

\* GET /me with a cookie from a login with the first password, answered
\* after the reset that replaced that password
C29_Witness ==
    /\ resp.route = "me"
    /\ resp.status = 200
    /\ rst[1].pc = "done"
    /\ rst[1].status = 200
    /\ rst[1].email = resp.data.email
    /\ \E i \in DOMAIN users :
          /\ users[i].id = resp.data.id
          /\ users[i].password = bcryptHash("secret2")
    /\ Len(users) = 2

----------------------------------------------------------------------------
(* C30: a session whose stored user id has no users row counts as not     *)
(* authenticated.  Such a session resolves to no user, and a request to a *)
(* protected route with its cookie is answered 401 "Authentication        *)
(* required" for no user, reading and writing no todo.                    *)

C30_NoUser ==
    \A x \in sessions :
       getUser(users, x.userId) = <<>> => (reqUser(x.sid) = <<>> /\ ~requireAuth(x.sid))

C30_Step ==
    (/\ resp.route = "none"
     /\ resp'.route \in ProtectedRoutes
     /\ \E x \in sessions :
           /\ x.sid = resp'.cookie
           /\ x.expire >= now
           /\ \A i \in DOMAIN users : users[i].id # x.userId) =>
        /\ resp' = [route |-> resp'.route, cookie |-> resp'.cookie, actor |-> <<>>,
                    status |-> 401, message |-> "Authentication required"]
              @@ (IF "id" \in DOMAIN resp' THEN [id |-> resp'.id] ELSE <<>>)
        /\ UNCHANGED <<todos, nextTodoId, sessions>>

====
